---------------------------- MODULE Spec2Model ----------------------------
(***************************************************************************)
(* Model of the brochure builder of src/app.py: generate_brochure_pdf      *)
(* (lines 250-757) with its helpers safe_text, PDFGenerator.draw_logo,     *)
(* PDFGenerator.footer, print_dual_column_blocks and print_block.          *)
(*                                                                         *)
(* A string is a sequence of characters, each character a TLA+ string.     *)
(* A literal the code draws verbatim and never inspects (a page title, a   *)
(* contact line) is carried as a sequence of one token.                    *)
(* A document is a sequence of pages; a page is a record with the section  *)
(* that opened it and the sequence of draw commands issued on it.          *)
(***************************************************************************)
EXTENDS Integers, Sequences, FiniteSets, TLC

(***************************************************************************)
(* Characters.                                                             *)
(***************************************************************************)
NL       == "\n"
BULLET   == "U+2022"
ENDASH   == "U+2013"
EMDASH   == "U+2014"
LDQUOTE  == "U+201C"
RDQUOTE  == "U+201D"
LSQUOTE  == "U+2018"
RSQUOTE  == "U+2019"
ELLIPSIS == "U+2026"
NNBSP    == "U+202F"
NBSP     == "U+00A0"
\* a character outside Latin-1 that the substitution table does not list
PLANE    == "U+2708"

NonLatin1 == {BULLET, ENDASH, EMDASH, LDQUOTE, RDQUOTE, LSQUOTE, RSQUOTE,
              ELLIPSIS, NNBSP, PLANE}

\* str.isspace(): what str.strip() removes
Whitespace == {" ", NL, "\t", NBSP, NNBSP}

LowerCase == <<"a","b","c","d","e","f","g","h","i","j","k","l","m",
               "n","o","p","q","r","s","t","u","v","w","x","y","z">>
UpperCase == <<"A","B","C","D","E","F","G","H","I","J","K","L","M",
               "N","O","P","Q","R","S","T","U","V","W","X","Y","Z">>

\* str.upper() on one character
UpperChar(c) ==
    IF \E i \in 1..26 : LowerCase[i] = c
    THEN UpperCase[CHOOSE i \in 1..26 : LowerCase[i] = c]
    ELSE c

\* str.upper()
upper(s) == [i \in 1..Len(s) |-> UpperChar(s[i])]

RECURSIVE lstrip_chars(_, _)
\* str.lstrip(chars)
lstrip_chars(s, chars) ==
    IF s # <<>> /\ s[1] \in chars THEN lstrip_chars(Tail(s), chars) ELSE s

RECURSIVE rstrip_chars(_, _)
\* str.rstrip(chars)
rstrip_chars(s, chars) ==
    IF s # <<>> /\ s[Len(s)] \in chars
    THEN rstrip_chars(SubSeq(s, 1, Len(s) - 1), chars)
    ELSE s

\* str.strip()
strip(s) == rstrip_chars(lstrip_chars(s, Whitespace), Whitespace)

\* str.startswith(c) for a one-character prefix
startswith(s, c) == s # <<>> /\ s[1] = c

RECURSIVE split(_)
\* str.split('\n'): never empty, "" gives [""]
split(s) ==
    IF \E i \in 1..Len(s) : s[i] = NL
    THEN LET i == CHOOSE j \in 1..Len(s) :
                     s[j] = NL /\ \A k \in 1..(j - 1) : s[k] # NL
         IN  <<SubSeq(s, 1, i - 1)>> \o split(SubSeq(s, i + 1, Len(s)))
    ELSE <<s>>

RECURSIVE join(_)
\* "\n".join(lines)
join(lines) ==
    IF lines = <<>> THEN <<>>
    ELSE IF Len(lines) = 1 THEN lines[1]
    ELSE lines[1] \o <<NL>> \o join(Tail(lines))

RECURSIVE str_int(_)
\* str(n) for n >= 0
str_int(n) ==
    LET Digit == <<"0","1","2","3","4","5","6","7","8","9">>
    IN  IF n < 10 THEN <<Digit[n + 1]>>
        ELSE str_int(n \div 10) \o <<Digit[(n % 10) + 1]>>

(***************************************************************************)
(* Python values read from the data record.  A field is a record           *)
(* [p, s]: p = "absent" (no such key), "null" (None) or "val".             *)
(***************************************************************************)
None      == [p |-> "null", s |-> <<>>]
Absent    == [p |-> "absent", s |-> <<>>]
Str(s)    == [p |-> "val", s |-> s]

\* dict.get(key): None when the key is absent
get(f) == IF f.p = "absent" THEN None ELSE f

\* dict.get(key, default)
get_d(f, default) == IF f.p = "absent" THEN Str(default) ELSE f

\* bool(v) of a string or a list
truthy(v) == v.p = "val" /\ v.s # <<>>

\* str(v) of a string or None
str(v) == IF v.p = "val" THEN v.s ELSE <<"N","o","n","e">>

\* the substitution table of safe_text
Replacement(c) ==
    CASE c = BULLET   -> <<"-">>
      [] c = ENDASH   -> <<"-">>
      [] c = EMDASH   -> <<"-">>
      [] c = LDQUOTE  -> <<"\"">>
      [] c = RDQUOTE  -> <<"\"">>
      [] c = LSQUOTE  -> <<"'">>
      [] c = RSQUOTE  -> <<"'">>
      [] c = ELLIPSIS -> <<".", ".", ".">>
      [] c = NNBSP    -> <<" ">>
      [] c = NBSP     -> <<" ">>
      [] OTHER        -> <<c>>

RECURSIVE replace_all(_)
replace_all(s) ==
    IF s = <<>> THEN <<>> ELSE Replacement(s[1]) \o replace_all(Tail(s))

\* text.encode('latin-1', 'ignore').decode('latin-1')
latin1_ignore(s) == SelectSeq(s, LAMBDA c : c \notin NonLatin1)

\* safe_text(text), text a Python value
safe_text(v) == IF ~truthy(v) THEN <<>> ELSE latin1_ignore(replace_all(v.s))

(***************************************************************************)
(* The drawing surface (fpdf.FPDF as PDFGenerator uses it).  D is the      *)
(* surface's state: the pages so far, the cursor y, and whether automatic  *)
(* page breaks are on (apb).  Every string of the model is shorter than a  *)
(* column, so cell and multi_cell lay it out on one row.                   *)
(***************************************************************************)
Cmd(k, s, x, y) == [k |-> k, s |-> s, x |-> x, y |-> y]

\* the page height of format A4, orientation L
PAGE_H == 210
\* set_auto_page_break(auto=True, margin=15)
BREAK_MARGIN == 15
\* fpdf's default top margin, where the cursor restarts on a new page
TOP_MARGIN == 10

NewDoc == [pages |-> <<>>, y |-> TOP_MARGIN, apb |-> TRUE]

draw(D, c) == [D EXCEPT !.pages[Len(D.pages)].cmds = Append(@, c)]

\* PDFGenerator.footer: fpdf calls it when a page is closed
footer(D) ==
    IF D.pages = <<>> THEN D
    ELSE draw(D, Cmd("footer", <<"Specification subject to verification">>,
                     0, PAGE_H - 12))

\* add_page: closes the current page (footer) and opens a new one
add_page_as(D, sec, auto) ==
    [footer(D) EXCEPT !.pages = Append(@, [sec |-> sec, auto |-> auto, cmds |-> <<>>]),
                      !.y = TOP_MARGIN]

add_page(D, sec) == add_page_as(D, sec, FALSE)

set_auto_page_break(D, on) == [D EXCEPT !.apb = on]

\* PDFGenerator.set_background
set_background(D) == draw(D, Cmd("background", <<>>, 0, 0))

\* PDFGenerator.draw_logo, with the logo file present
draw_logo(D) == draw(D, Cmd("logo", <<>>, 260, 10))

\* PDFGenerator.draw_gold_divider
draw_gold_divider(D, x, y) == draw(D, Cmd("divider", <<>>, x, y))

\* fpdf's automatic page break before a cell of height h: a new page of the
\* same section, opened by the library (no background, no logo on the old one)
page_break_if_needed(D, h) ==
    IF D.apb /\ D.y + h > PAGE_H - BREAK_MARGIN
    THEN add_page_as(D, D.pages[Len(D.pages)].sec, TRUE)
    ELSE D

\* cell(w, h, text, ln): draws at the cursor; ln moves the cursor down by h
cell(D, k, s, x, h, ln) ==
    LET D1 == page_break_if_needed(D, h)
        D2 == draw(D1, Cmd(k, s, x, D1.y))
    IN  IF ln THEN [D2 EXCEPT !.y = @ + h] ELSE D2

\* multi_cell(w, h, text): one row of height h for a string of the model
multi_cell(D, k, s, x, h) == cell(D, k, s, x, h, TRUE)

set_y(D, y) == [D EXCEPT !.y = y]

ln(D, h) == [D EXCEPT !.y = @ + h]

(***************************************************************************)
(* print_block (lines 492-578).  The result's y is the value print_block   *)
(* returns (pdf.get_y() + 5).                                              *)
(***************************************************************************)
LEFT_COL_X  == 15
RIGHT_COL_X == 155

\* is_bullet(l)
is_bullet(l) ==
    \/ startswith(strip(l), "-")
    \/ startswith(strip(l), BULLET)
    \/ startswith(strip(l), "*")

RECURSIVE preprocess(_)
\* lines 520-525: strip, drop empty lines, prefix a bullet where there is none
preprocess(lines) ==
    IF lines = <<>> THEN <<>>
    ELSE LET l == strip(lines[1])
         IN  (IF l = <<>> THEN <<>>
              ELSE IF ~is_bullet(l) THEN << <<BULLET, " ">> \o l >>
              ELSE <<l>>) \o preprocess(Tail(lines))

\* lines 518-529
processed_lines(txt) ==
    LET lines == split(txt)
        p     == IF Len(lines) > 1 THEN preprocess(lines) ELSE lines
    IN  IF p = <<>> THEN <<txt>> ELSE p

\* lines 535-573: one paragraph unit
print_unit(D, line, x_pos, uppercase_text) ==
    LET l == strip(line)
    IN  IF l = <<>> THEN D
        ELSE IF is_bullet(l)
        THEN LET clean == strip(lstrip_chars(l, {"-", BULLET, "*", " "}))
                 clean_text == IF uppercase_text THEN upper(clean) ELSE clean
                 D1 == cell(D, "marker", <<BULLET>>, x_pos, 5, FALSE)
             IN  multi_cell(D1, "bullet", clean_text, x_pos + 6, 5)
        ELSE multi_cell(D, "plain", IF uppercase_text THEN upper(l) ELSE l,
                        x_pos, 5)

RECURSIVE print_units(_, _, _, _)
\* lines 531-573 (the surface draws only with a page open)
print_units(D, lines, x_pos, uppercase_text) ==
    IF lines = <<>> \/ D.pages = <<>> THEN D
    ELSE print_units(print_unit(D, lines[1], x_pos, uppercase_text),
                     Tail(lines), x_pos, uppercase_text)

\* print_block(sub_title, content, x_pos, start_y); content is a string
print_block(D, sub_title, content, x_pos, start_y, uppercase_text) ==
    LET D1 == set_y(D, start_y)
        D2 == IF sub_title # <<>>
              THEN cell(D1, "subtitle", upper(sub_title), x_pos, 6, TRUE)
              ELSE D1
        txt == safe_text(Str(content))
        D3 == print_units(D2, processed_lines(txt), x_pos, uppercase_text)
    IN  [D3 EXCEPT !.y = @ + 5]

(***************************************************************************)
(* print_dual_column_blocks (lines 469-612).  sections is a sequence of    *)
(* [name, content], content a Python value; sec names the section for the  *)
(* pages it opens.                                                         *)
(***************************************************************************)
Section(name, content) == [name |-> name, content |-> content]

\* line 471
valid_sections(sections) ==
    SelectSeq(sections,
              LAMBDA x : truthy(x.content) /\ strip(str(x.content)) # <<>>)

\* the smaller half on the left
mid_floor(valid) == Len(valid) \div 2

\* line 586
mid(valid) == (Len(valid) + 1) \div 2

\* line 587
left_sections(valid) == SubSeq(valid, 1, mid(valid))

\* line 588
right_sections(valid) == SubSeq(valid, mid(valid) + 1, Len(valid))

\* the page break only at the automatic break's trigger
left_page_break_late(D, show_branding) ==
    IF D.y > PAGE_H - BREAK_MARGIN
    THEN LET D1 == IF show_branding THEN draw_logo(D) ELSE D
             D2 == add_page(D1, D.pages[Len(D.pages)].sec)
         IN  set_y(set_background(D2), 20)
    ELSE D

\* lines 595-601: the page break of the left column
left_page_break(D, show_branding) ==
    IF D.y > 180
    THEN LET D1 == IF show_branding THEN draw_logo(D) ELSE D
             D2 == add_page(D1, D.pages[Len(D.pages)].sec)
         IN  set_y(set_background(D2), 20)
    ELSE D

RECURSIVE left_loop(_, _, _, _, _)
\* lines 593-602; D.y is y_cursor.  Gives the surface and initial_y.
left_loop(D, secs, initial_y, uppercase_text, show_branding) ==
    IF secs = <<>> THEN [d |-> D, initial_y |-> initial_y]
    ELSE IF ~truthy(secs[1].content)
    THEN left_loop(D, Tail(secs), initial_y, uppercase_text, show_branding)
    ELSE LET D1 == left_page_break(D, show_branding)
             iy == IF D.y > 180 THEN 20 ELSE initial_y
             D2 == print_block(D1, secs[1].name, secs[1].content.s,
                               LEFT_COL_X, D1.y, uppercase_text)
         IN  left_loop(D2, Tail(secs), iy, uppercase_text, show_branding)

RECURSIVE right_loop(_, _, _)
\* lines 604-609; D.y is y_cursor_right
right_loop(D, secs, uppercase_text) ==
    IF secs = <<>> THEN D
    ELSE IF ~truthy(secs[1].content)
    THEN right_loop(D, Tail(secs), uppercase_text)
    ELSE right_loop(print_block(D, secs[1].name, secs[1].content.s,
                                RIGHT_COL_X, D.y, uppercase_text),
                    Tail(secs), uppercase_text)

print_dual_column_blocks(D, sections, title, uppercase_text, sec, show_branding) ==
    LET valid == valid_sections(sections)
        D1 == set_background(set_auto_page_break(add_page(D, sec), TRUE))
        D2 == cell(set_y(D1, 20), "heading", title, 15, 10, TRUE)
        D3 == ln(draw_gold_divider(D2, 15, D2.y + 2), 10)
        L  == left_loop(D3, left_sections(valid), D3.y, uppercase_text,
                        show_branding)
        R  == right_loop(set_y(L.d, L.initial_y), right_sections(valid),
                         uppercase_text)
    IN  IF valid = <<>> THEN D
        ELSE IF show_branding THEN draw_logo(R) ELSE R

(***************************************************************************)
(* The gallery's image fit (lines 421-443), in exact rational arithmetic:  *)
(* a rational is [n, d] with d > 0.                                        *)
(***************************************************************************)
Rat(n, d) == IF d < 0 THEN [n |-> -n, d |-> -d] ELSE [n |-> n, d |-> d]
RInt(k) == [n |-> k, d |-> 1]
RMul(a, b) == Rat(a.n * b.n, a.d * b.d)
RDiv(a, b) == Rat(a.n * b.d, a.d * b.n)
RSub(a, b) == Rat(a.n * b.d - b.n * a.d, a.d * b.d)
RGt(a, b) == a.n * b.d > b.n * a.d
REq(a, b) == a.n * b.d = b.n * a.d
RLe(a, b) == ~RGt(a, b)

container_w == 297
container_h == 210

\* lines 428-429
aspect(img) == IF img.height = 0 THEN RInt(1) ELSE Rat(img.width, img.height)

\* line 434 divides by aspect: ZeroDivisionError when it is 0
fit_raises(img) == aspect(img).n = 0

\* always fitted to the width
fit_image_to_width(img) ==
    LET w1 == RInt(container_w)
        h1 == RDiv(w1, aspect(img))
    IN  [pw |-> w1, ph |-> h1,
         px |-> RDiv(RSub(RInt(container_w), w1), RInt(2)),
         py |-> RDiv(RSub(RInt(container_h), h1), RInt(2))]

\* lines 433-443: the displayed size and offset
fit_image(img) ==
    LET w1 == RInt(container_w)
        h1 == RDiv(w1, aspect(img))
        over == RGt(h1, RInt(container_h))
        disp_h == IF over THEN RInt(container_h) ELSE h1
        disp_w == IF over THEN RMul(disp_h, aspect(img)) ELSE w1
    IN  [pw |-> disp_w, ph |-> disp_h,
         px |-> RDiv(RSub(RInt(container_w), disp_w), RInt(2)),
         py |-> RDiv(RSub(RInt(container_h), disp_h), RInt(2))]

\* pdf.image(...) of a selected image
ImageCmd(i, g) == [k |-> "image", img |-> i, px |-> g.px, py |-> g.py,
                   pw |-> g.pw, ph |-> g.ph]

(***************************************************************************)
(* The sections of generate_brochure_pdf, each as the surface after it.    *)
(***************************************************************************)
\* branding whatever the variant
show_branding_always(variant) == TRUE

\* line 257
show_branding(variant) == variant = "full"

branded(D, variant) == IF show_branding(variant) THEN draw_logo(D) ELSE D

\* lines 262-303: the cover
cover_page(D, data, images, variant) ==
    LET D1 == set_background(set_auto_page_break(add_page(D, "cover"), FALSE))
        hero == [k |-> "image", img |-> 1, px |-> RInt(0), py |-> RInt(0),
                 pw |-> RInt(297), ph |-> RInt(210)]
        D2 == IF images # <<>>
              THEN draw(draw(D1, hero), Cmd("plate", <<>>, 0, 150))
              ELSE D1
        tagline == get_d(data.tagline, <<"A","I","R","C","R","A","F","T"," ",
                                         "D","O","S","S","I","E","R">>)
        D3 == cell(set_y(D2, 160), "tagline", upper(safe_text(tagline)), 20, 8, TRUE)
        model == get_d(data.model, <<"A","I","R","C","R","A","F","T">>)
        D4 == multi_cell(D3, "model", safe_text(model), 20, 18)
        sub == str(get_d(data.year, <<>>)) \o <<" ", "|", " ">>
                   \o str(get_d(data.make, <<>>))
        D5 == cell(D4, "sub", upper(safe_text(Str(sub))), 20, 10, TRUE)
    IN  branded(D5, variant)

\* lines 310-312
has_specs(data) == truthy(get(data.keySpecs))
has_desc(data) == truthy(get(data.description))
has_highlights(data) == truthy(get(data.highlights))

RECURSIVE spec_cards_break_late(_, _, _, _)
\* the cards stop at the page break margin
spec_cards_break_late(D, specs, i, y_start) ==
    IF i >= Len(specs) \/ D.pages = <<>> THEN D
    ELSE LET spec  == specs[i + 1]
             x_pos == IF i % 2 = 0 THEN 15 ELSE 75
             y_pos == y_start + ((i \div 2) * 22)
             D1 == draw(D, Cmd("card", <<>>, x_pos, y_pos))
             D2 == cell(set_y(D1, y_pos + 4), "label",
                        upper(safe_text(get_d(spec.label, <<>>))),
                        x_pos + 4, 4, FALSE)
             D3 == cell(set_y(D2, y_pos + 10), "value",
                        safe_text(Str(str(get_d(spec.value, <<>>)))),
                        x_pos + 4, 8, FALSE)
         IN  IF y_pos > PAGE_H - BREAK_MARGIN THEN D
             ELSE spec_cards_break_late(D3, specs, i + 1, y_start)

RECURSIVE spec_cards(_, _, _, _)
\* lines 338-358; i counts from 0 as enumerate does (the surface draws only
\* with a page open)
spec_cards(D, specs, i, y_start) ==
    IF i >= Len(specs) \/ D.pages = <<>> THEN D
    ELSE LET spec  == specs[i + 1]
             x_pos == IF i % 2 = 0 THEN 15 ELSE 75
             y_pos == y_start + ((i \div 2) * 22)
             D1 == draw(D, Cmd("card", <<>>, x_pos, y_pos))
             D2 == cell(set_y(D1, y_pos + 4), "label",
                        upper(safe_text(get_d(spec.label, <<>>))),
                        x_pos + 4, 4, FALSE)
             D3 == cell(set_y(D2, y_pos + 10), "value",
                        safe_text(Str(str(get_d(spec.value, <<>>)))),
                        x_pos + 4, 8, FALSE)
         IN  IF y_pos > 180 THEN D
             ELSE spec_cards(D3, specs, i + 1, y_start)

RECURSIVE highlight_rows(_, _)
\* lines 388-401
highlight_rows(D, highlights) ==
    IF highlights = <<>> THEN D
    ELSE LET val == get_d(highlights[1].point, <<>>)
             D1  == draw(D, Cmd("highlight_mark", <<>>, 145, D.y + 2))
             D2  == multi_cell(D1, "highlight", safe_text(val), 150, 6)
         IN  IF ~truthy(val) THEN highlight_rows(D, Tail(highlights))
             ELSE IF D.y > 185 THEN D
             ELSE highlight_rows(D2, Tail(highlights))

\* lines 314-404: key specs, the asset, highlights
specs_page(D, data, variant) ==
    LET D1 == set_background(set_auto_page_break(add_page(D, "specs"), TRUE))
        A1 == cell(set_y(D1, 20), "heading", <<"Technical Specifications">>,
                   15, 10, TRUE)
        A2 == ln(draw_gold_divider(A1, 15, A1.y + 2), 8)
        D2 == IF has_specs(data)
              THEN spec_cards(A2, get(data.keySpecs).s, 0, A2.y)
              ELSE D1
        B1 == cell(set_y(D2, 20), "heading", <<"The Asset">>, 145, 10, TRUE)
        B2 == IF has_desc(data)
              THEN multi_cell(set_y(B1, 35), "description",
                              safe_text(get_d(data.description, <<>>)), 145, 6)
              ELSE B1
        current_y == IF has_desc(data) THEN B2.y + 5 ELSE 35
        B3 == IF has_highlights(data)
              THEN highlight_rows(set_y(B2, current_y), get(data.highlights).s)
              ELSE B2
        D3 == IF has_desc(data) \/ has_highlights(data) THEN B3 ELSE D2
    IN  IF has_specs(data) \/ has_desc(data) \/ has_highlights(data)
        THEN branded(D3, variant)
        ELSE D

\* the view index counted from 0
caption_from_zero(data, i) ==
    upper(safe_text(Str(str(get_d(data.model, <<>>))
                        \o <<" ", "|", " ", "V", "I", "E", "W", " ">>
                        \o str_int(i))))

\* line 461: the caption of gallery image i (from 0)
caption(data, i) ==
    upper(safe_text(Str(str(get_d(data.model, <<>>))
                        \o <<" ", "|", " ", "V", "I", "E", "W", " ">>
                        \o str_int(i + 1))))

\* lines 411-464: the page of selected_images[1:][i]
gallery_page(D, data, images, i, variant) ==
    LET D1 == set_background(set_auto_page_break(add_page(D, "gallery"), FALSE))
        D2 == draw(D1, ImageCmd(i + 2, fit_image(images[i + 2])))
        D3 == draw(D2, Cmd("plate", <<>>, 10, 193))
        D4 == cell(set_y(D3, 195), "caption", caption(data, i), 12, 6, FALSE)
    IN  branded(D4, variant)

\* lines 617-623
tech_specs_2(data) ==
    << Section(<<"A","i","r","f","r","a","m","e">>, get(data.airframe)),
       Section(<<"E","n","g","i","n","e","s">>, get(data.engines)),
       Section(<<"A","P","U">>, get(data.apu)) >>

\* lines 636, 649: the stripped non-empty lines of a line list
line_list(text) ==
    LET stripped == [j \in 1..Len(split(text)) |-> strip(split(text)[j])]
    IN  SelectSeq(stripped, LAMBDA x : x # <<>>)

\* lines 637-642, 650-654: the two halves as untitled sections
half_sections(text) ==
    LET lines == line_list(text)
        half  == (Len(lines) + 1) \div 2
    IN  << Section(<<>>, Str(join(SubSeq(lines, 1, half)))),
           Section(<<>>, Str(join(SubSeq(lines, half + 1, Len(lines))))) >>

\* only the inspection decides
valid_maint_by_inspection(maint) ==
    SelectSeq(maint, LAMBDA m : truthy(get(m.inspection)))

\* line 662
valid_maint(maint) ==
    SelectSeq(maint, LAMBDA m : \/ truthy(get(m.inspection))
                                \/ truthy(get(m.lastPerformed))
                                \/ truthy(get(m.nextDue)))

RECURSIVE maint_rows(_, _)
\* lines 683-690
maint_rows(D, rows) ==
    IF rows = <<>> \/ D.pages = <<>> THEN D
    ELSE LET item == rows[1]
             D1 == cell(D, "inspection",
                        upper(safe_text(get_d(item.inspection, <<>>))), 15, 7, FALSE)
             D2 == cell(D1, "lastPerformed",
                        upper(safe_text(get_d(item.lastPerformed, <<>>))), 60, 7, FALSE)
             D3 == cell(D2, "nextDue",
                        upper(safe_text(get_d(item.nextDue, <<>>))), 100, 7, TRUE)
         IN  maint_rows(D3, Tail(rows))

\* lines 663-693
maintenance_page(D, maint, variant) ==
    LET D1 == set_background(set_auto_page_break(add_page(D, "maintenance"), TRUE))
        D2 == cell(set_y(D1, 20), "heading", <<"Maintenance Status">>, 15, 10, TRUE)
        D3 == ln(draw_gold_divider(D2, 15, D2.y + 2), 8)
        D4 == cell(D3, "table_head", <<"INSPECTION">>, 15, 8, FALSE)
        D5 == cell(D4, "table_head", <<"LAST">>, 60, 8, FALSE)
        D6 == cell(D5, "table_head", <<"NEXT">>, 100, 8, TRUE)
    IN  IF valid_maint(maint) = <<>> THEN D
        ELSE branded(maint_rows(D6, valid_maint(maint)), variant)

\* lines 698-701
config_sections(data) ==
    << Section(<<"I","n","t","e","r","i","o","r">>, get(data.interior)),
       Section(<<"E","x","t","e","r","i","o","r">>, get(data.exterior)) >>

\* lines 707-753, with the logo file present
contact_page(D, variant) ==
    LET D1 == set_background(add_page(D, "contact"))
        \* x = (297 - 80) / 2 = 108.5, carried as 108
        D2 == draw(D1, Cmd("contact_logo", <<>>, 108, 60))
        D3 == ln(set_y(D2, 60 + 25), 10)
        D4 == cell(D3, "contact", <<"glintero@glintero.com">>, 0, 8, TRUE)
        D5 == cell(D4, "contact", <<"+971 4 330 1528">>, 0, 8, TRUE)
        D6 == cell(D5, "contact", <<"PO Box 453440, Dubai, UAE">>, 0, 8, TRUE)
        D7 == cell(D6, "contact", <<"www.glintero.com">>, 0, 8, TRUE)
    IN  IF show_branding(variant) THEN D7 ELSE D

(***************************************************************************)
(* The inputs: data records, image selections, the variant.                *)
(***************************************************************************)
MaxImages == 3
MaxLines  == 3
MaxRows   == 3
MaxDim    == 5
MaxSpecs  == 16

Variants == {"full", "clean"}

RECURSIVE SeqsUpTo(_, _)
\* the sequences over S of length at most n
SeqsUpTo(S, n) ==
    IF n = 0 THEN {<<>>}
    ELSE LET shorter == SeqsUpTo(S, n - 1)
         IN  shorter \cup {Append(q, x) : q \in shorter, x \in S}

EmptyData ==
    [tagline |-> Absent, model |-> Absent, year |-> Absent, make |-> Absent,
     description |-> Absent, highlights |-> Absent, keySpecs |-> Absent,
     airframe |-> Absent, engines |-> Absent, apu |-> Absent,
     avionics |-> Absent, equipment |-> Absent, maintenanceStatus |-> Absent,
     interior |-> Absent, exterior |-> Absent]

\* an image as extract_images_from_pdf gives it, 800 x 600 pixels
Photo == [width |-> 800, height |-> 600]

Photos(n) == [j \in 1..n |-> Photo]

KeySpec(label, value) == [label |-> label, value |-> value]
Highlight(point) == [point |-> point]
MaintRow(a, b, c) == [inspection |-> a, lastPerformed |-> b, nextDue |-> c]

\* what the form of main() leaves in an untouched table (lines 802, 821, 827)
BlankSpecs == Str(<< KeySpec(Str(<<>>), Str(<<>>)) >>)
BlankHighlights == Str(<< Highlight(Str(<<>>)) >>)
BlankMaint == Str(<< MaintRow(Str(<<>>), Str(<<>>), Str(<<>>)) >>)

OneSpec == Str(<< KeySpec(Str(<<"r","a","n","g","e">>), Str(<<"7","n","m">>)) >>)
OneRow == Str(<< MaintRow(Str(<<"c">>), Str(<<"1">>), Str(<<"2">>)) >>)
ThreeLines == Str(<<"a", NL, "b", NL, "c">>)

\* every subset of the skippable sections empty or populated
SectionData ==
    { [EmptyData EXCEPT !.model = m, !.keySpecs = ks, !.airframe = af,
                        !.avionics = av, !.equipment = eq,
                        !.maintenanceStatus = mt, !.interior = it] :
        m  \in {Absent, None, Str(<<"g","5">>)},
        ks \in {Absent, OneSpec},
        af \in {Absent, Str(<<"a">>)},
        av \in {Absent, ThreeLines},
        eq \in {Absent, Str(<<"e">>)},
        mt \in {Absent, BlankMaint, OneRow},
        it \in {Absent, Str(<<"i">>)} }

\* the specs page: key specs, description, highlights
SpecsData ==
    { [EmptyData EXCEPT !.keySpecs = ks, !.description = de, !.highlights = hl] :
        ks \in {Absent, None, Str(<<>>), BlankSpecs, OneSpec,
                Str(<< KeySpec(Absent, None), KeySpec(Str(<<"a">>), Str(<<"b">>)) >>)},
        de \in {Absent, None, Str(<<>>), Str(<<" ">>), Str(<<"d">>)},
        hl \in {Absent, None, Str(<<>>), BlankHighlights,
                Str(<< Highlight(Str(<<"h">>)) >>),
                Str(<< Highlight(Str(<<"h">>)), Highlight(None),
                       Highlight(Str(<<"k">>)) >>)} }

\* n key specs labelled 1..n
NumberedSpecs(n) ==
    Str([j \in 1..n |-> KeySpec(Str(<<"s">> \o str_int(j)), Str(str_int(j)))])

\* more highlights than the column holds
ManyHighlights == Str([j \in 1..30 |-> Highlight(Str(<<"h">> \o str_int(j)))])

\* the spec grid: key specs lists up to more than the page holds
GridData ==
    { [EmptyData EXCEPT !.keySpecs = NumberedSpecs(n), !.highlights = hl] :
        n \in 1..MaxSpecs, hl \in {Absent, ManyHighlights} }

ProseValues == {Absent, None, Str(<<>>), Str(<<" ">>), Str(<<"a">>),
                Str(<<"a", NL, "b">>)}

\* the named subsections of the two prose sections
ProseData ==
    { [EmptyData EXCEPT !.airframe = af, !.engines = en, !.apu = ap] :
        af \in ProseValues, en \in ProseValues, ap \in ProseValues }
    \cup
    { [EmptyData EXCEPT !.interior = it, !.exterior = ex] :
        it \in ProseValues, ex \in ProseValues }

\* a null where the code reads a line list or a table
NullData ==
    { [EmptyData EXCEPT !.avionics = None],
      [EmptyData EXCEPT !.equipment = None],
      [EmptyData EXCEPT !.maintenanceStatus = None],
      [[f \in DOMAIN EmptyData |-> None]
           EXCEPT !.avionics = Absent, !.equipment = Str(<<>>),
                  !.maintenanceStatus = Str(<<>>)] }

\* the lines a text field is made of
LineValues ==
    { <<>>, <<"a">>, <<"b">>, <<"-", " ", "a">>, <<"-", "b">>,
      <<"*", " ", "a">>, <<BULLET, " ", "b">>, <<" ", "a", " ">> }

TextValues == { join(q) : q \in SeqsUpTo(LineValues, MaxLines) }

\* characters outside Latin-1 in every kind of field
GlyphData ==
    [EmptyData EXCEPT
        !.tagline = Str(<<LSQUOTE, "t", RSQUOTE>>),
        !.model = Str(<<LDQUOTE, "g", RDQUOTE, PLANE, ELLIPSIS>>),
        !.make = Str(<<"m", NBSP, PLANE>>),
        !.description = Str(<<"d", EMDASH, "e", NNBSP>>),
        !.keySpecs = Str(<< KeySpec(Str(<<"r", ENDASH>>), Str(<<PLANE, "7">>)) >>),
        !.highlights = Str(<< Highlight(Str(<<BULLET, "h">>)) >>),
        !.airframe = Str(<<"a", ENDASH, "b", NL, BULLET, " ", "c", PLANE>>),
        !.avionics = Str(<<PLANE, "v", NL, ELLIPSIS, "w">>),
        !.maintenanceStatus =
            Str(<< MaintRow(Str(<<"c", PLANE>>), Str(<<LDQUOTE, "1">>), Absent) >>),
        !.interior = Str(<<"i", NBSP, "j">>)]

\* one text field of a two-column section, line by line
TextData ==
    { [EmptyData EXCEPT !.avionics = Str(s)] : s \in TextValues }
    \cup { [EmptyData EXCEPT !.airframe = Str(s)] : s \in TextValues }
    \cup { [EmptyData EXCEPT !.equipment = Str(<<"a", NL, "-", " ", "b">>)],
           GlyphData }

RowValues ==
    { MaintRow(a, b, c) : a \in {Str(<<>>), Str(<<"c">>)},
                          b \in {Str(<<>>), Str(<<"1">>)},
                          c \in {Str(<<>>), Str(<<"2">>)} }
    \cup { MaintRow(Absent, None, Absent), MaintRow(Str(<<" ">>), Absent, Absent) }

MaintData ==
    { [EmptyData EXCEPT !.maintenanceStatus = Str(q)] :
        q \in SeqsUpTo(RowValues, MaxRows) }

\* a text of n lines
Lines(n) == join([j \in 1..n |-> <<"a">>])

\* line counts around the left column's page break (cursor above 180 from
\* 26 lines on) and the surface's automatic one (from 30 lines on)
TallCounts == {25, 26, 29, 30}

\* a table of n rows
Rows(n) == [j \in 1..n |-> MaintRow(Str(<<"c">> \o str_int(j)), Str(<<"1">>), None)]

\* texts and tables taller than a page
TallData ==
    { [EmptyData EXCEPT !.airframe = Str(Lines(k)), !.engines = en, !.apu = ap] :
        k \in TallCounts,
        en \in {Absent, Str(<<"e">>)},
        ap \in {Absent, Str(<<"p">>), Str(Lines(31))} }
    \cup
    { [EmptyData EXCEPT !.avionics = Str(Lines(64))],
      [EmptyData EXCEPT !.equipment = Str(Lines(4))],
      [EmptyData EXCEPT !.maintenanceStatus = Str(Rows(23))],
      [EmptyData EXCEPT !.interior = Str(Lines(31)), !.exterior = Str(<<"x">>)] }

\* pixel sizes of a selected image
Sizes == { [width |-> w, height |-> h] : w \in (-MaxDim)..MaxDim,
                                         h \in (-MaxDim)..MaxDim }

(***************************************************************************)
(* The state: the inputs main() passes to generate_brochure_pdf (line 892),*)
(* the position in it, the surface, the gallery loop's index, the          *)
(* temporary files that exist, and the document last built per variant.    *)
(***************************************************************************)
VARIABLES data, selected_images, variant, pc, pdf, i, tmp, built

vars == <<data, selected_images, variant, pc, pdf, i, tmp, built>>

\* the maintenance table after the configuration section
StepsConfigurationFirst ==
    <<"cover", "specs", "gallery", "tech", "avionics", "equipment",
      "configuration", "maintenance", "contact", "done">>

\* the order of the sections in generate_brochure_pdf (lines 259-757)
Steps == <<"cover", "specs", "gallery", "tech", "avionics", "equipment",
           "maintenance", "configuration", "contact", "done">>

\* the step that follows step s
after(s) == Steps[(CHOOSE j \in 1..Len(Steps) : Steps[j] = s) + 1]

NotBuilt == [done |-> FALSE, pages |-> <<>>]

Start(d, imgs, v) ==
    /\ data = d
    /\ selected_images = imgs
    /\ variant = v
    /\ pc = Steps[1]
    /\ pdf = NewDoc
    /\ i = 0
    /\ tmp = {}
    /\ built = [w \in Variants |-> NotBuilt]

\* whole documents: sections present or not, specs page, prose sections
Init ==
    \/ \E d \in SectionData, n \in 0..MaxImages, v \in Variants :
          Start(d, Photos(n), v)
    \/ \E d \in SpecsData \cup ProseData \cup NullData \cup GridData,
             v \in Variants :
          Start(d, Photos(2), v)

\* text fields line by line
InitText == \E d \in TextData : Start(d, Photos(2), "clean")

\* maintenance tables row by row
InitMaint == \E d \in MaintData : Start(d, Photos(2), "clean")

\* tall texts and tables
InitTall == \E d \in TallData, v \in Variants : Start(d, Photos(2), v)

\* image sizes
InitFit ==
    \E s \in Sizes, t \in {Photo, [width |-> 3, height |-> 7]}, v \in Variants :
        Start([EmptyData EXCEPT !.model = Str(<<"g","5">>)], <<Photo, s, t>>, v)

unchanged_inputs == UNCHANGED <<data, selected_images>>

\* lines 251-303
Cover ==
    /\ pc = "cover"
    /\ pdf' = cover_page(NewDoc, data, selected_images, variant)
    /\ pc' = after("cover")
    /\ UNCHANGED <<variant, i, tmp, built>>
    /\ unchanged_inputs

\* lines 309-404
Specs ==
    /\ pc = "specs"
    /\ pdf' = specs_page(pdf, data, variant)
    /\ pc' = after("specs")
    /\ i' = 0
    /\ UNCHANGED <<variant, tmp, built>>
    /\ unchanged_inputs

\* lines 410-464: one iteration of the gallery loop; the division of line 434
\* raises after the page and the temporary file exist
GalleryPage ==
    /\ pc = "gallery"
    /\ Len(selected_images) > 1
    /\ i < Len(selected_images) - 1
    /\ IF fit_raises(selected_images[i + 2])
       THEN /\ pdf' = set_background(set_auto_page_break(
                          add_page(pdf, "gallery"), FALSE))
            /\ tmp' = tmp \cup {i + 2}
            /\ pc' = "error"
            /\ i' = i
       ELSE /\ pdf' = gallery_page(pdf, data, selected_images, i, variant)
            /\ tmp' = tmp
            /\ pc' = pc
            /\ i' = i + 1
    /\ UNCHANGED <<variant, built>>
    /\ unchanged_inputs

\* lines 409-410: no image is left
GalleryDone ==
    /\ pc = "gallery"
    /\ ~(Len(selected_images) > 1 /\ i < Len(selected_images) - 1)
    /\ pc' = after("gallery")
    /\ UNCHANGED <<variant, pdf, i, tmp, built>>
    /\ unchanged_inputs

\* lines 617-623
TechSpecs ==
    /\ pc = "tech"
    /\ pdf' = print_dual_column_blocks(pdf, tech_specs_2(data),
                  <<"Technical Specifications (Cont.)">>, FALSE, "tech",
                  show_branding(variant))
    /\ pc' = after("tech")
    /\ UNCHANGED <<variant, i, tmp, built>>
    /\ unchanged_inputs

\* lines 628-643; None.split raises
Avionics ==
    /\ pc = "avionics"
    /\ LET avi_text == get_d(data.avionics, <<>>)
       IN  IF avi_text.p = "null"
           THEN pc' = "error" /\ pdf' = pdf
           ELSE /\ pdf' = print_dual_column_blocks(pdf, half_sections(avi_text.s),
                              <<"Avionics">>, TRUE, "avionics",
                              show_branding(variant))
                /\ pc' = after("avionics")
    /\ UNCHANGED <<variant, i, tmp, built>>
    /\ unchanged_inputs

\* lines 648-655; None.split raises
Equipment ==
    /\ pc = "equipment"
    /\ LET eq_text == get_d(data.equipment, <<>>)
       IN  IF eq_text.p = "null"
           THEN pc' = "error" /\ pdf' = pdf
           ELSE /\ pdf' = print_dual_column_blocks(pdf, half_sections(eq_text.s),
                              <<"Equipment">>, FALSE, "equipment",
                              show_branding(variant))
                /\ pc' = after("equipment")
    /\ UNCHANGED <<variant, i, tmp, built>>
    /\ unchanged_inputs

\* lines 660-693; iterating None raises
Maintenance ==
    /\ pc = "maintenance"
    /\ LET maint == get_d(data.maintenanceStatus, <<>>)
       IN  IF maint.p = "null"
           THEN pc' = "error" /\ pdf' = pdf
           ELSE /\ pdf' = maintenance_page(pdf, maint.s, variant)
                /\ pc' = after("maintenance")
    /\ UNCHANGED <<variant, i, tmp, built>>
    /\ unchanged_inputs

\* lines 698-702
Configuration ==
    /\ pc = "configuration"
    /\ pdf' = print_dual_column_blocks(pdf, config_sections(data),
                  <<"Configuration Details">>, FALSE, "configuration",
                  show_branding(variant))
    /\ pc' = after("configuration")
    /\ UNCHANGED <<variant, i, tmp, built>>
    /\ unchanged_inputs

\* lines 707-757: the contact page, then output() closes the last page
Contact ==
    /\ pc = "contact"
    /\ pdf' = footer(contact_page(pdf, variant))
    /\ pc' = after("contact")
    /\ built' = [built EXCEPT ![variant] = [done |-> TRUE, pages |-> pdf'.pages]]
    /\ UNCHANGED <<variant, i, tmp>>
    /\ unchanged_inputs

\* lines 882-892 of main(): the other variant of the same data is generated
Generate ==
    /\ pc = "done"
    /\ \E v \in Variants :
          /\ ~built[v].done
          /\ variant' = v
    /\ pc' = Steps[1]
    /\ pdf' = NewDoc
    /\ i' = 0
    /\ UNCHANGED <<tmp, built>>
    /\ unchanged_inputs

Next ==
    \/ Cover
    \/ Specs
    \/ GalleryPage
    \/ GalleryDone
    \/ TechSpecs
    \/ Avionics
    \/ Equipment
    \/ Maintenance
    \/ Configuration
    \/ Contact
    \/ Generate

Spec == Init /\ [][Next]_vars
SpecText == InitText /\ [][Next]_vars
SpecMaint == InitMaint /\ [][Next]_vars
SpecFit == InitFit /\ [][Next]_vars
SpecTall == InitTall /\ [][Next]_vars

(***************************************************************************)
(* Properties.                                                             *)
(***************************************************************************)
RECURSIVE SectionCmds(_, _)
\* the draw commands of the pages of section sec, in document order
SectionCmds(pages, sec) ==
    IF pages = <<>> THEN <<>>
    ELSE (IF pages[1].sec = sec THEN pages[1].cmds ELSE <<>>)
         \o SectionCmds(Tail(pages), sec)

PagesOf(pages, sec) == SelectSeq(pages, LAMBDA pg : pg.sec = sec)

OfKind(cmds, kinds) == SelectSeq(cmds, LAMBDA c : c.k \in kinds)

\* the paragraph units among draw commands
Units(cmds) == OfKind(cmds, {"bullet", "plain"})

WithoutLogo(page) == [page EXCEPT !.cmds = SelectSeq(@, LAMBDA c : c.k # "logo")]

BothBuilt == built["full"].done /\ built["clean"].done

\* C1: once the same data and images have been built in both variants, the
\* full document has exactly one page more than the clean one: its pages are
\* the clean document's pages, in order and equal apart from logo stamps,
\* followed by one contact page.
C1_FullIsCleanPlusContact ==
    BothBuilt =>
        LET f == built["full"].pages
            c == built["clean"].pages
        IN  /\ Len(f) = Len(c) + 1
            /\ \A j \in 1..Len(c) :
                  /\ j <= Len(f)
                  /\ WithoutLogo(f[j]) = WithoutLogo(c[j])
                  /\ f[j].sec # "contact"
            /\ f[Len(f)].sec = "contact"

C1_Witness ==
    /\ BothBuilt
    /\ Len(built["clean"].pages) >= 7
    /\ PagesOf(built["clean"].pages, "gallery") # <<>>

\* the claimed place of each section in the document
SectionRank(sec) ==
    CASE sec = "cover"         -> 1
      [] sec = "specs"         -> 2
      [] sec = "gallery"       -> 3
      [] sec = "tech"          -> 4
      [] sec = "avionics"      -> 5
      [] sec = "equipment"     -> 6
      [] sec = "maintenance"   -> 7
      [] sec = "configuration" -> 8
      [] sec = "contact"       -> 9

\* C3: at every moment of a build the pages emitted so far are in the fixed
\* section order: the first page is the cover, and of two pages of different
\* sections the one of the earlier section comes first.
C3_SectionOrder ==
    pdf.pages # <<>> =>
        /\ pdf.pages[1].sec = "cover"
        /\ \A a, b \in 1..Len(pdf.pages) :
              a < b => SectionRank(pdf.pages[a].sec) <= SectionRank(pdf.pages[b].sec)
        /\ \A a \in 2..Len(pdf.pages) : pdf.pages[a].sec # "cover"

C3_Witness ==
    /\ pc = "done"
    /\ PagesOf(pdf.pages, "specs") = <<>>
    /\ PagesOf(pdf.pages, "gallery") # <<>>
    /\ PagesOf(pdf.pages, "tech") = <<>>
    /\ PagesOf(pdf.pages, "avionics") # <<>>
    /\ PagesOf(pdf.pages, "maintenance") # <<>>
    /\ PagesOf(pdf.pages, "configuration") # <<>>
    /\ PagesOf(pdf.pages, "contact") # <<>>

\* a text field that is absent, null, empty or only whitespace
BlankText(f) == f.p # "val" \/ \A k \in 1..Len(f.s) : f.s[k] \in Whitespace

BlankKeySpecs(f) ==
    f.p # "val" \/ \A k \in 1..Len(f.s) :
                      BlankText(f.s[k].label) /\ BlankText(f.s[k].value)

BlankHighlightList(f) ==
    f.p # "val" \/ \A k \in 1..Len(f.s) : BlankText(f.s[k].point)

BlankMaintList(f) ==
    f.p # "val" \/ \A k \in 1..Len(f.s) :
                      /\ BlankText(f.s[k].inspection)
                      /\ BlankText(f.s[k].lastPerformed)
                      /\ BlankText(f.s[k].nextDue)

NoPage(sec) == PagesOf(pdf.pages, sec) = <<>>

\* C2: a built document has no page of a skippable section all of whose
\* fields are empty or absent, a list of entries of empty strings and a text
\* of only whitespace counting as empty.
C2_EmptySectionNoPage ==
    pc = "done" =>
        /\ (BlankKeySpecs(data.keySpecs) /\ BlankText(data.description)
               /\ BlankHighlightList(data.highlights)) => NoPage("specs")
        /\ Len(selected_images) <= 1 => NoPage("gallery")
        /\ (BlankText(data.airframe) /\ BlankText(data.engines)
               /\ BlankText(data.apu)) => NoPage("tech")
        /\ BlankText(data.avionics) => NoPage("avionics")
        /\ BlankText(data.equipment) => NoPage("equipment")
        /\ BlankMaintList(data.maintenanceStatus) => NoPage("maintenance")
        /\ (BlankText(data.interior) /\ BlankText(data.exterior))
               => NoPage("configuration")

\* the names, as drawn, of the sections that have something to say
NamedSubsections(sections) ==
    LET named == SelectSeq(sections, LAMBDA x : ~BlankText(x.content))
    IN  [j \in 1..Len(named) |-> upper(named[j].name)]

\* the subsection titles drawn in section sec at column x, in drawing order
SubtitlesAt(sec, x) ==
    LET c == SelectSeq(SectionCmds(pdf.pages, sec),
                       LAMBDA d : d.k = "subtitle" /\ d.x = x)
    IN  [j \in 1..Len(c) |-> c[j].s]

Balanced(sec, sections) ==
    LET names == NamedSubsections(sections)
        n     == Len(names)
        L     == SubtitlesAt(sec, LEFT_COL_X)
        R     == SubtitlesAt(sec, RIGHT_COL_X)
    IN  /\ (n = 0) <=> NoPage(sec)
        /\ Len(L) = n - (n \div 2)
        /\ Len(R) = n \div 2
        /\ L \o R = names
        /\ Len(OfKind(SectionCmds(pdf.pages, sec), {"subtitle"})) = n

\* C7: in a built document each section of named subsections has its n
\* non-empty subsections split by position, the first ceil(n/2) in the left
\* column and the other floor(n/2) in the right one, left then right being the
\* filtered list in its order; with n = 0 the section has no page.
C7_ColumnBalance ==
    pc = "done" =>
        /\ Balanced("tech", tech_specs_2(data))
        /\ Balanced("configuration", config_sections(data))

C7_Witness ==
    /\ pc = "done"
    /\ Len(SubtitlesAt("tech", LEFT_COL_X)) = 2
    /\ Len(SubtitlesAt("tech", RIGHT_COL_X)) = 1
    /\ NoPage("configuration")

\* what str() and the f-string of line 461 make of the model field
ModelText ==
    IF data.model.p = "val" THEN data.model.s
    ELSE IF data.model.p = "null" THEN <<"N", "o", "n", "e">>
    ELSE <<>>

ViewText(k) == <<" ", "|", " ", "V", "I", "E", "W", " ">> \o str_int(k)

\* the gallery pages show the images after the first, one each and in order,
\* page k captioned Caption(k); the first image is on the cover only
GalleryShows(Caption(_)) ==
    LET n == Len(selected_images)
        g == PagesOf(pdf.pages, "gallery")
    IN  /\ Len(g) = IF n = 0 THEN 0 ELSE n - 1
        /\ \A k \in 1..Len(g) :
              /\ Len(OfKind(g[k].cmds, {"image"})) = 1
              /\ OfKind(g[k].cmds, {"image"})[1].img = k + 1
              /\ Len(OfKind(g[k].cmds, {"caption"})) = 1
              /\ OfKind(g[k].cmds, {"caption"})[1].s = Caption(k)
        /\ \A a \in 1..Len(pdf.pages) :
              LET shown == OfKind(pdf.pages[a].cmds, {"image"})
              IN  IF pdf.pages[a].sec = "cover"
                  THEN Len(shown) = (IF n = 0 THEN 0 ELSE 1)
                       /\ \A j \in 1..Len(shown) : shown[j].img = 1
                  ELSE \A j \in 1..Len(shown) : shown[j].img # 1

\* C9 as stated: n selected images give max(0, n-1) gallery pages, page k
\* showing image k+1 under the caption "<model> | VIEW k"; the first image is
\* the hero of the cover only.
C9_CaptionVerbatim ==
    (pc = "done" /\ data.model.p = "val") =>
        GalleryShows(LAMBDA k : data.model.s \o ViewText(k))

\* C9 as amended: the same, the caption being "<model> | VIEW k" in upper case
\* after character normalisation, where <model> is empty for a missing model
\* and None for a null one.
C9_GalleryPages ==
    pc = "done" =>
        GalleryShows(LAMBDA k : upper(latin1_ignore(replace_all(
                                     ModelText \o ViewText(k)))))

C9_Witness ==
    /\ pc = "done"
    /\ Len(selected_images) = 3
    /\ Len(PagesOf(pdf.pages, "gallery")) = 2
    /\ data.model.p = "val"

\* a text as drawn by a table cell: normalised, in upper case
CellText(f) ==
    IF f.p = "val" THEN upper(latin1_ignore(replace_all(f.s))) ELSE <<>>

\* a maintenance entry with at least one field that is not empty
Populated(m) ==
    \E f \in {m.inspection, m.lastPerformed, m.nextDue} : f.p = "val" /\ f.s # <<>>

\* C10: in a built document the maintenance table has one row for each entry
\* of maintenanceStatus with a non-empty inspection, lastPerformed or nextDue,
\* in the entries' order, and no other row; the maintenance page exists
\* exactly when there is such an entry.
C10_MaintenanceRows ==
    (pc = "done" /\ data.maintenanceStatus.p = "val") =>
        LET rows == SelectSeq(data.maintenanceStatus.s, Populated)
            cmds == SectionCmds(pdf.pages, "maintenance")
            ins  == OfKind(cmds, {"inspection"})
            last == OfKind(cmds, {"lastPerformed"})
            nxt  == OfKind(cmds, {"nextDue"})
        IN  /\ NoPage("maintenance") <=> (rows = <<>>)
            /\ Len(ins) = Len(rows) /\ Len(last) = Len(rows) /\ Len(nxt) = Len(rows)
            /\ \A j \in 1..Len(rows) :
                  /\ ins[j].s = CellText(rows[j].inspection)
                  /\ last[j].s = CellText(rows[j].lastPerformed)
                  /\ nxt[j].s = CellText(rows[j].nextDue)
                  /\ ins[j].y = last[j].y /\ last[j].y = nxt[j].y
                  /\ j > 1 => ins[j].y > ins[j - 1].y

C10_Witness ==
    /\ pc = "done"
    /\ Len(data.maintenanceStatus.s) = 3
    /\ ~Populated(data.maintenanceStatus.s[2])
    /\ Len(OfKind(SectionCmds(pdf.pages, "maintenance"), {"inspection"})) = 2
    /\ data.maintenanceStatus.s[1] # data.maintenanceStatus.s[3]

\* the image commands of the gallery pages, in page order
GalleryImages == OfKind(SectionCmds(pdf.pages, "gallery"), {"image"})

Contained(c, size) ==
    /\ RLe(c.pw, RInt(297))
    /\ RLe(c.ph, RInt(210))
    /\ c.pw.n * c.ph.d * size.height = c.ph.n * c.pw.d * size.width
    /\ REq(c.pw, RInt(297)) \/ REq(c.ph, RInt(210))
    /\ REq(RMul(RInt(2), c.px), RSub(RInt(297), c.pw))
    /\ REq(RMul(RInt(2), c.py), RSub(RInt(210), c.ph))
    /\ c.px.n >= 0 /\ c.px.d > 0
    /\ c.py.n >= 0 /\ c.py.d > 0

\* C8: every image placed on a gallery page, of pixel size Wi > 0 by Hi > 0,
\* has a displayed size within 297 x 210 with Wd*Hi = Hd*Wi, touches the
\* container in width or in height, and is centred with offsets >= 0; an
\* image with Hi = 0 is displayed with Wd = Hd.  (Exact rational arithmetic.)
C8_ImageFit ==
    \A j \in 1..Len(GalleryImages) :
        LET c    == GalleryImages[j]
            size == selected_images[c.img]
        IN  /\ (size.width > 0 /\ size.height > 0) => Contained(c, size)
            /\ size.height = 0 => /\ REq(c.pw, c.ph)
                                  /\ Contained(c, [width |-> 1, height |-> 1])

C8_Witness ==
    /\ Len(GalleryImages) = 2
    /\ selected_images[2].width = 5 /\ selected_images[2].height = 1
    /\ REq(GalleryImages[1].pw, RInt(297))
    /\ RGt(RInt(210), GalleryImages[1].ph)
    /\ selected_images[3].height > selected_images[3].width
    /\ REq(GalleryImages[2].ph, RInt(210))
    /\ RGt(RInt(297), GalleryImages[2].pw)

C8_WitnessZeroHeight ==
    /\ Len(GalleryImages) >= 1
    /\ selected_images[2].height = 0
    /\ selected_images[2].width > 0

\* a character that marks a list item
Markers == {"-", "*", BULLET}

\* a line as drawn: normalised, without its leading marker
ItemText(line) ==
    strip(lstrip_chars(latin1_ignore(replace_all(line)), {"-", "*", " "}))

\* C4: an avionics field of n >= 2 non-empty lines is drawn as n paragraph
\* units in the lines' order, each a bullet unit with its marker glyph, the
\* first ceil(n/2) in the left column and the other floor(n/2) in the right.
C4_LineListAllBullets ==
    (pc = "done" /\ data.avionics.p = "val"
        /\ Len(line_list(data.avionics.s)) >= 2) =>
        LET lines == line_list(data.avionics.s)
            n     == Len(lines)
            cmds  == SectionCmds(pdf.pages, "avionics")
            u     == Units(cmds)
        IN  /\ Len(u) = n
            /\ Len(OfKind(cmds, {"marker"})) = n
            /\ \A j \in 1..Len(u) :
                  /\ u[j].k = "bullet"
                  /\ j <= n => u[j].s = upper(ItemText(lines[j]))
                  /\ (j <= n - (n \div 2)) <=> (u[j].x < RIGHT_COL_X)

\* C5: a text field that has exactly one line once split on line breaks,
\* trimmed and cleared of empty lines is drawn as exactly one plain unit
\* holding that line, without a marker glyph and with no leading character
\* removed.
C5_SingleLinePlain ==
    (pc = "done" /\ data.airframe.p = "val"
        /\ Len(line_list(data.airframe.s)) = 1) =>
        LET line == line_list(data.airframe.s)[1]
            cmds == SectionCmds(pdf.pages, "tech")
            u    == Units(cmds)
        IN  /\ Len(u) = 1
            /\ u[1].k = "plain"
            /\ u[1].s = latin1_ignore(replace_all(line))
            /\ OfKind(cmds, {"marker"}) = <<>>

\* the number of bullet units of section sec in a document
BulletCount(pages, sec) == Len(OfKind(SectionCmds(pages, sec), {"bullet"}))

\* a field of two or more non-empty lines, none with a marker
Unmarked(f) ==
    /\ f.p = "val"
    /\ Len(line_list(f.s)) >= 2
    /\ Len(line_list(f.s)) = Len(split(f.s))
    /\ \A j \in 1..Len(split(f.s)) :
          split(f.s)[j] = strip(split(f.s)[j]) /\ split(f.s)[j][1] \notin Markers

\* the same lines, each prefixed with "- "
Marked(s) == join([j \in 1..Len(split(s)) |-> <<"-", " ">> \o split(s)[j]])

\* the document built so far, as it is when the sections before sec are done
Before(sec) ==
    [pdf EXCEPT !.pages = SelectSeq(@, LAMBDA pg : SectionRank(pg.sec) < SectionRank(sec))]

\* C6: in every two-column section a field of two or more unmarked lines is
\* drawn with as many bullet units as the field of the same lines each
\* prefixed with "- ".
C6_BulletCountIdempotent ==
    pc = "done" =>
        /\ Unmarked(data.airframe) =>
              BulletCount(pdf.pages, "tech") =
              BulletCount(print_dual_column_blocks(Before("tech"),
                              tech_specs_2([data EXCEPT !.airframe =
                                                Str(Marked(data.airframe.s))]),
                              <<"Technical Specifications (Cont.)">>, FALSE,
                              "tech", show_branding(variant)).pages, "tech")
        /\ Unmarked(data.avionics) =>
              BulletCount(pdf.pages, "avionics") =
              BulletCount(print_dual_column_blocks(Before("avionics"),
                              half_sections(Marked(data.avionics.s)),
                              <<"Avionics">>, TRUE, "avionics",
                              show_branding(variant)).pages, "avionics")

\* the cards, labels and values of the spec grid, in drawing order
GridCmds(kind) == OfKind(SectionCmds(pdf.pages, "specs"), {kind})

Body(page) == SelectSeq(page.cmds, LAMBDA c : c.k # "footer")

\* C12: in a built full document every page carries the corner logo stamp,
\* issued once and after all of the page's content; in a built clean
\* document no page carries a logo stamp.
C12_BrandingStamp ==
    pc = "done" =>
        \A a \in 1..Len(pdf.pages) :
            LET body == Body(pdf.pages[a])
            IN  IF variant = "full"
                THEN /\ body # <<>>
                     /\ body[Len(body)].k = "logo"
                     /\ Len(OfKind(body, {"logo"})) = 1
                ELSE OfKind(body, {"logo"}) = <<>>

TwoColumn == {"tech", "avionics", "equipment", "configuration"}

\* the commands that a block of a column at x starts with
StartsAt(sec, x) ==
    SelectSeq(SectionCmds(pdf.pages, sec),
              LAMBDA c : c.k \in {"subtitle", "marker", "plain"} /\ c.x = x)

\* C15: in a built document, in every two-column section with blocks in both
\* columns, the first block of the right column starts at the Y at which the
\* first block of the left column starts on the title page, 40 units.
C15_ColumnIndependence ==
    pc = "done" =>
        \A sec \in TwoColumn :
            (StartsAt(sec, LEFT_COL_X) # <<>> /\ StartsAt(sec, RIGHT_COL_X) # <<>>) =>
                /\ StartsAt(sec, LEFT_COL_X)[1].y = 40
                /\ StartsAt(sec, RIGHT_COL_X)[1].y = StartsAt(sec, LEFT_COL_X)[1].y

RECURSIVE Located(_, _, _)
\* the draw commands of section sec from page a on, each with its page number
Located(pages, a, sec) ==
    IF a > Len(pages) THEN <<>>
    ELSE (IF pages[a].sec = sec
          THEN [j \in 1..Len(pages[a].cmds) |-> [pg |-> a, c |-> pages[a].cmds[j]]]
          ELSE <<>>)
         \o Located(pages, a + 1, sec)

\* the left column's cursor before the block that starts at place p of loc:
\* a row of 5 and a gap of 5 below the last paragraph unit drawn before it
CursorBefore(loc, p) ==
    LET q == CHOOSE r \in 1..(p - 1) :
                 /\ loc[r].c.k \in {"bullet", "plain"}
                 /\ \A r2 \in (r + 1)..(p - 1) : loc[r2].c.k \notin {"bullet", "plain"}
    IN  [pg |-> loc[q].pg, y |-> loc[q].c.y + 10]

\* a page the left column's overflow opened: not the surface's own break,
\* background first, the page before it closed with the logo stamp exactly in
\* the full variant
OverflowPage(a) ==
    /\ a > 1
    /\ ~pdf.pages[a].auto
    /\ pdf.pages[a].cmds[1].k = "background"
    /\ pdf.pages[a - 1].sec = pdf.pages[a].sec
    /\ LET body == Body(pdf.pages[a - 1])
       IN  (variant = "full") <=> (body[Len(body)].k = "logo")

\* C16: in a built document no block of a two-column section starts with the
\* column cursor above 180; a left-column block whose cursor, after the block
\* before it, exceeds 180 starts at Y = 20 on a new page with background, the
\* page before it finished and stamped in the full variant, and any other
\* block starts at the cursor on the page the cursor is on.
C16_OverflowPolicy ==
    pc = "done" =>
        \A sec \in TwoColumn :
            LET loc == Located(pdf.pages, 1, sec)
                left == {p \in 1..Len(loc) :
                            loc[p].c.k = "subtitle" /\ loc[p].c.x = LEFT_COL_X}
            IN  /\ \A x \in {LEFT_COL_X, RIGHT_COL_X} :
                      \A j \in 1..Len(StartsAt(sec, x)) :
                          StartsAt(sec, x)[j].k = "subtitle" \/ j = 1
                              => StartsAt(sec, x)[j].y <= 180
                /\ \A p \in left :
                      (\E r \in left : r < p) =>
                          LET cur == CursorBefore(loc, p)
                          IN  IF cur.y > 180
                              THEN /\ loc[p].pg = cur.pg + 1
                                   /\ loc[p].c.y = 20
                                   /\ OverflowPage(loc[p].pg)
                              ELSE /\ loc[p].pg = cur.pg
                                   /\ loc[p].c.y = cur.y

C16_Witness ==
    /\ pc = "done"
    /\ variant = "full"
    /\ Len(PagesOf(pdf.pages, "tech")) = 2
    /\ \A a \in 1..Len(pdf.pages) : ~pdf.pages[a].auto
    /\ LET s == StartsAt("tech", LEFT_COL_X)
       IN  /\ Len(OfKind(s, {"subtitle"})) = 2
           /\ s[1].y = 40
           /\ OfKind(s, {"subtitle"})[2].y = 20

\* C13: a build never fails on a field that is absent, null or empty: it
\* never stops with an error.
C13_MissingFieldNoError == pc # "error"

\* every image command of the document so far
AllImages ==
    LET RECURSIVE Shown(_)
        Shown(a) == IF a > Len(pdf.pages) THEN <<>>
                    ELSE OfKind(pdf.pages[a].cmds, {"image"}) \o Shown(a + 1)
    IN  Shown(1)

InvalidGeometry(img) == img.width < 0 \/ img.height < 0

\* C14: no image of negative pixel width or height is ever placed, and a
\* build of a selection that holds one does not complete.
C14_InvalidGeometryFailsFast ==
    /\ \A j \in 1..Len(AllImages) :
          /\ ~InvalidGeometry(selected_images[AllImages[j].img])
          /\ AllImages[j].pw.n >= 0 /\ AllImages[j].ph.n >= 0
    /\ pc = "done" =>
          \A k \in 1..Len(selected_images) : ~InvalidGeometry(selected_images[k])

\* C17: every image placed anywhere in the document, the hero of the cover
\* included, is displayed with the width:height ratio of its pixel size.
C17_NoDistortion ==
    \A j \in 1..Len(AllImages) :
        LET c    == AllImages[j]
            size == selected_images[c.img]
        IN  c.pw.n * c.ph.d * size.height = c.ph.n * c.pw.d * size.width

\* C18: at most one temporary image file exists at any time, and none is
\* left when a build has ended, normally or with an error.
C18_TempFilesReleased ==
    /\ Cardinality(tmp) <= 1
    /\ pc \in {"done", "error"} => tmp = {}

\* the strings handed to the surface's text-drawing calls
AllTexts ==
    LET RECURSIVE Drawn(_)
        Drawn(a) == IF a > Len(pdf.pages) THEN <<>>
                    ELSE SelectSeq(pdf.pages[a].cmds,
                                   LAMBDA c : c.k # "image" /\ c.s # <<>>)
                         \o Drawn(a + 1)
    IN  Drawn(1)

Normalised(s) ==
    /\ \A j \in 1..Len(s) : s[j] \notin NonLatin1 \cup {NBSP}
    /\ latin1_ignore(replace_all(s)) = s

=============================================================================
